---- MODULE Spec2Model ----
(***************************************************************************)
(* The Simon task device of script/simon_device.py: the trial sequencer    *)
(* SimonTask (setup, update_window, accept_response, set_motivation and    *)
(* the render callbacks), the value objects SimonStimulus and SimonTrial,  *)
(* and the ACT-R engine the device drives, seen as an opaque scheduler:    *)
(* it keeps the model clock (actr.mp_time), runs the events the device     *)
(* schedules (actr.run), presses keys (output-key) and owns the STEP slot  *)
(* of the GOAL buffer that update_window dispatches on.                    *)
(*                                                                         *)
(* Time is counted in ticks of 0.01 s, the delay of every                  *)
(* schedule_event_relative call of the device.                             *)
(***************************************************************************)
EXTENDS Integers, Sequences, FiniteSets, TLC

(***************************************************************************)
(* Bounds of the model.                                                    *)
(***************************************************************************)
\* longest stimulus sequence
MaxN == 2
\* most key presses the engine makes during one actr.run
MaxPresses == 2
\* latest value of the model clock: MaxN full trials take 3 * MaxN ticks.
\* Every call of update_window that calls itself again takes a tick, so
\* this bounds the depth of the recursion too.
MaxTime == 7

(***************************************************************************)
(* Module constants of simon_device.py.                                    *)
(***************************************************************************)
SHAPES == {"CIRCLE", "SQUARE"}

LOCATIONS == {"LEFT", "RIGHT"}

SIMON_MAPPINGS == [s \in SHAPES |-> IF s = "CIRCLE" THEN "LEFT" ELSE "RIGHT"]

RESPONSE_MAPPINGS == [l \in LOCATIONS |-> IF l = "LEFT" THEN "f" ELSE "j"]

\* Python's None (a response not given, a STEP slot not set)
None == "None"

\* the keys the engine presses
Keys == {"f", "j"}

\* values of the STEP slot of the GOAL chunk; ATTEND-FIXATION is what
\* set_motivation writes, and stands for every step update_window ignores
GoalSteps == {None, "ATTEND-FIXATION", "ATTEND-CUE", "ATTEND-STIMULUS"}

\* the commands the device schedules in the engine
Commands == {"stroop-set-motivation", "stroop-update-fixation",
             "stroop-update-cue", "stroop-update-stimulus"}

(***************************************************************************)
(* SimonStimulus and SimonTrial.                                           *)
(***************************************************************************)
SimonStimulus(shape, location, cue) ==
    [shape |-> shape, location |-> location, cue |-> cue]

AllStimuli ==
    {SimonStimulus(s, l, c) : s \in SHAPES, l \in LOCATIONS, c \in LOCATIONS}


\* SimonTrial.__init__ and SimonTrial.setup: a fresh trial on a stimulus
SimonTrial_Stale(stim) ==
    [stimulus |-> stim, onset |-> 1, offset |-> 0, response |-> None]

SimonTrial_Answered(stim) ==
    [stimulus |-> stim, onset |-> 0, offset |-> 0, response |-> "f"]

SimonTrial(stim) ==
    [stimulus |-> stim, onset |-> 0, offset |-> 0, response |-> None]

response_time(trial) == trial.offset - trial.onset

(***************************************************************************)
(* State.  Trials are objects: trials is the heap of the SimonTrial        *)
(* objects created so far, and current_trial and the entries of log are    *)
(* references into it, so that log.append(self.current_trial) aliases the  *)
(* current trial as the code does.                                         *)
(***************************************************************************)
VARIABLES
    stimuli,        \* self.stimuli
    index,          \* self.index (0-based; -1 before setup)
    phase,          \* self.phase ("unset" before setup)
    log,            \* self.log: references to trials
    current_trial,  \* self.current_trial: a reference (0 before setup)
    trials,         \* the SimonTrial objects
    motivation,     \* self.parameters['motivation']
    pc,             \* where the run of the experiment stands
    depth,          \* number of update_window calls on the stack
    now,            \* actr.mp_time()
    goal,           \* STEP slot of the chunk in the GOAL buffer
    pending,        \* events scheduled in the engine and not yet run
    screen,         \* what the experiment window shows
    presses,        \* number of keys presses during the current actr.run
    call            \* the last call of a function of the module outside
                    \* the run of the task: its arguments and what it gave

vars == <<stimuli, index, phase, log, current_trial, trials, motivation, pc,
          depth, now, goal, pending, screen, presses, call>>

\* no call made
NoCall == [fn |-> "none"]

\* the fields of the task that the device itself owns
task == <<index, phase, log, current_trial, trials>>

\* the trial self.current_trial refers to
Cur == trials[current_trial]

\* the trials of self.log, dereferenced
LogTrials == [i \in 1..Len(log) |-> trials[log[i]]]

\* inside actr.run, and back from it
Running == pc \in {"run-done", "run-fixation", "run-cue", "run-stimulus"}


(***************************************************************************)
(* Construction: SimonTask(setup=False) as run_experiment builds it, the   *)
(* stimuli being the first 1..MaxN stimuli of a shuffled list, the         *)
(* motivation the default one, and the engine as setup_model leaves it:    *)
(* the clock at 0 and no step in the goal.                                 *)
(***************************************************************************)
\* two of the orders random.shuffle can leave the stimuli in
Shuffles ==
    {<<SimonStimulus("CIRCLE", "LEFT", "LEFT"),
       SimonStimulus("SQUARE", "LEFT", "LEFT"),
       SimonStimulus("CIRCLE", "RIGHT", "LEFT"),
       SimonStimulus("SQUARE", "RIGHT", "LEFT")>>,
     <<SimonStimulus("SQUARE", "RIGHT", "RIGHT"),
       SimonStimulus("SQUARE", "LEFT", "RIGHT"),
       SimonStimulus("CIRCLE", "LEFT", "RIGHT"),
       SimonStimulus("CIRCLE", "RIGHT", "RIGHT")>>}

StimulusSequences ==
    {SubSeq(s, 1, n) : s \in Shuffles, n \in 1..MaxN}

Init ==
    /\ stimuli \in StimulusSequences
    /\ index = -1
    /\ phase = "unset"
    /\ log = <<>>
    /\ current_trial = 0
    /\ trials = <<>>
    /\ motivation = 1
    /\ pc = "constructed"
    /\ depth = 0
    /\ now = 0
    /\ goal = None
    /\ pending = {}
    /\ screen = "blank"
    /\ presses = 0
    /\ call = NoCall

(***************************************************************************)
(* SimonTask.setup                                                         *)
(***************************************************************************)
StimulusAt_First(i) == stimuli[1]

\* self.stimuli[i], the index being 0-based
StimulusAt(i) == stimuli[i + 1]

setup ==
    /\ pc = "constructed"
    /\ index' = 0
    /\ log' = <<>>
    /\ phase' = "fixation"
    /\ trials' = <<SimonTrial(StimulusAt(index'))>>
    /\ current_trial' = 1
    /\ pc' = "ready"
    /\ UNCHANGED <<call, stimuli, motivation, depth, now, goal, pending, screen,
                   presses>>

(***************************************************************************)
(* SimonTask.update_window.  Each call takes one branch: the first on      *)
(* self.phase, the others on the STEP slot the engine holds.  A branch     *)
(* schedules its events, hands control to the engine (actr.run), during    *)
(* which the scheduled commands and accept_response are called back, and   *)
(* then finishes and calls update_window again.  The part of a branch      *)
(* before actr.run and the part after it are one action each.              *)
(***************************************************************************)
get_actr_goal_step == goal

Branch_NoDone(ph, step) ==
    IF step = None THEN "fixation"
    ELSE IF step = "ATTEND-CUE" THEN "cue"
    ELSE IF step = "ATTEND-STIMULUS" THEN "stimulus"
    ELSE IF ph = "done" THEN "done"
    ELSE "return"

\* the branch of the if/elif chain that a call takes
Branch(ph, step) ==
    IF ph = "done" THEN "done"
    ELSE IF step = None THEN "fixation"
    ELSE IF step = "ATTEND-CUE" THEN "cue"
    ELSE IF step = "ATTEND-STIMULUS" THEN "stimulus"
    ELSE "return"

\* actr.schedule_event_now and actr.schedule_event_relative(0.01, ...)
schedule_event_now(cmd) == [cmd |-> cmd, at |-> now]

schedule_event_relative(cmd) == [cmd |-> cmd, at |-> now + 1]

\* update_window is called by run_experiment, by itself, or once more by a
\* caller it has returned to
Called == pc \in {"ready", "call", "returned"}

\* if self.phase == "done": self.done(); actr.run(time)
update_window_done ==
    /\ Called
    /\ Branch(phase, get_actr_goal_step) = "done"
    /\ screen' = "done"
    /\ pc' = "run-done"
    /\ depth' = depth + 1
    /\ presses' = 0
    /\ UNCHANGED <<call, stimuli, motivation, now, goal, pending>>
    /\ UNCHANGED task

\* elif self.get_actr_goal_step() == None: up to actr.run(time)
update_window_fixation ==
    /\ Called
    /\ Branch(phase, get_actr_goal_step) = "fixation"
    /\ pending' = pending \cup {schedule_event_now("stroop-set-motivation"),
                                schedule_event_relative("stroop-update-fixation")}
    /\ pc' = "run-fixation"
    /\ depth' = depth + 1
    /\ presses' = 0
    /\ UNCHANGED <<call, stimuli, motivation, now, goal, screen>>
    /\ UNCHANGED task

\* elif self.get_actr_goal_step() == "ATTEND-CUE": up to actr.run(time)
update_window_cue ==
    /\ Called
    /\ Branch(phase, get_actr_goal_step) = "cue"
    /\ pending' = pending \cup {schedule_event_relative("stroop-update-cue")}
    /\ pc' = "run-cue"
    /\ depth' = depth + 1
    /\ presses' = 0
    /\ UNCHANGED <<call, stimuli, motivation, now, goal, screen>>
    /\ UNCHANGED task

\* elif self.get_actr_goal_step() == "ATTEND-STIMULUS": up to actr.run(time)
update_window_stimulus ==
    /\ Called
    /\ Branch(phase, get_actr_goal_step) = "stimulus"
    /\ trials' = [trials EXCEPT ![current_trial].onset = now]
    /\ pending' = pending \cup {schedule_event_relative("stroop-update-stimulus")}
    /\ pc' = "run-stimulus"
    /\ depth' = depth + 1
    /\ presses' = 0
    /\ UNCHANGED <<call, stimuli, motivation, now, goal, screen>>
    /\ UNCHANGED <<index, phase, log, current_trial>>

\* no branch matches: the call returns, and so does every call below it
update_window_return ==
    /\ Called
    /\ Branch(phase, get_actr_goal_step) = "return"
    /\ pc' = "returned"
    /\ depth' = 0
    /\ UNCHANGED <<call, stimuli, motivation, now, goal, pending, screen, presses>>
    /\ UNCHANGED task

(***************************************************************************)
(* The engine during actr.run: the clock moves on, never past an event     *)
(* that is due; due events run; the model presses keys and rewrites the    *)
(* STEP slot of its goal.                                                  *)
(***************************************************************************)
Due(e) == e \in pending /\ e.at <= now

tick ==
    /\ Running
    /\ now < MaxTime
    /\ \A e \in pending : e.at > now
    /\ now' = now + 1
    /\ UNCHANGED <<call, stimuli, motivation, pc, depth, goal, pending, screen,
                   presses>>
    /\ UNCHANGED task

\* actr.run returns once no scheduled event is left; the model has by then
\* left some step in the STEP slot of its goal
run_returns(step) ==
    /\ Running
    /\ pending = {}
    /\ goal' = step
    /\ pc' = CASE pc = "run-done" -> "ran-done"
              [] pc = "run-fixation" -> "ran-fixation"
              [] pc = "run-cue" -> "ran-cue"
              [] pc = "run-stimulus" -> "ran-stimulus"
    /\ presses' = 0
    /\ UNCHANGED <<call, stimuli, motivation, depth, now, pending, screen>>
    /\ UNCHANGED task

\* if self.phase == "fixation" and self.parameters['motivation']
SendsMotivation_AnyPhase(ph, m) == m # 0

SendsMotivation(ph, m) == ph = "fixation" /\ m # 0

\* SimonTask.set_motivation, run as the command stroop-set-motivation
set_motivation ==
    /\ Running
    /\ \E e \in pending :
        /\ Due(e)
        /\ e.cmd = "stroop-set-motivation"
        /\ pending' = pending \ {e}
    /\ goal' = IF SendsMotivation(phase, motivation)
               THEN "ATTEND-FIXATION" ELSE goal
    /\ UNCHANGED <<call, stimuli, motivation, pc, depth, now, screen, presses>>
    /\ UNCHANGED task

\* SimonTask.fixation, SimonTask.cue and SimonTask.stimulus, run as the
\* commands stroop-update-fixation, stroop-update-cue, stroop-update-stimulus
Render(cmd, shown) ==
    /\ Running
    /\ \E e \in pending :
        /\ Due(e)
        /\ e.cmd = cmd
        /\ pending' = pending \ {e}
    /\ screen' = shown
    /\ UNCHANGED <<call, stimuli, motivation, pc, depth, now, goal, presses>>
    /\ UNCHANGED task

fixation == Render("stroop-update-fixation", "fixation")

cue == Render("stroop-update-cue", "cue")

stimulus == Render("stroop-update-stimulus", "stimulus")

(***************************************************************************)
(* SimonTask.accept_response, the monitor of output-key.                   *)
(***************************************************************************)
AcceptsResponse_AnyPhase(ph) == TRUE

AcceptsResponse_NotFixation(ph) == ph # "fixation"

AcceptsResponse(ph) == ph = "stimulus"

RecordResponse_FirstWins(trial, response, t) ==
    IF trial.response = None
    THEN [trial EXCEPT !.response = response, !.offset = t]
    ELSE trial

RecordResponse_NoOffset(trial, response, t) ==
    [trial EXCEPT !.response = response]

RecordResponse(trial, response, t) ==
    [trial EXCEPT !.response = response, !.offset = t]

accept_response(response) ==
    /\ Running
    /\ presses < MaxPresses
    /\ presses' = presses + 1
    /\ trials' = IF AcceptsResponse(phase)
                 THEN [trials EXCEPT
                         ![current_trial] = RecordResponse(@, response, now)]
                 ELSE trials
    /\ UNCHANGED <<call, stimuli, motivation, pc, depth, now, goal, pending, screen>>
    /\ UNCHANGED <<index, phase, log, current_trial>>

(***************************************************************************)
(* update_window after actr.run: the rest of the branch, up to the         *)
(* recursive call.                                                         *)
(***************************************************************************)
Ran(branch) == pc = branch

\* the done branch ends: the call returns, and so does every call below it
after_done ==
    /\ Ran("ran-done")
    /\ pc' = "returned"
    /\ depth' = 0
    /\ UNCHANGED <<call, stimuli, motivation, now, goal, pending, screen, presses>>
    /\ UNCHANGED task

\* self.phase = "cue"; self.update_window()
after_fixation ==
    /\ Ran("ran-fixation")
    /\ phase' = "cue"
    /\ pc' = "call"
    /\ UNCHANGED <<call, stimuli, motivation, depth, now, goal, pending, screen,
                   presses>>
    /\ UNCHANGED <<index, log, current_trial, trials>>

\* self.phase = "stimulus"; self.update_window()
after_cue ==
    /\ Ran("ran-cue")
    /\ phase' = "stimulus"
    /\ pc' = "call"
    /\ UNCHANGED <<call, stimuli, motivation, depth, now, goal, pending, screen,
                   presses>>
    /\ UNCHANGED <<index, log, current_trial, trials>>

NextIndex_Stay(i) == i

NextIndex_Skip(i) == i + 2

NextIndex(i) == i + 1

AppendLog_Front(l, ref) == <<ref>> \o l

AppendLog(l, ref) == Append(l, ref)

Exhausted_Early(i, n) == i + 1 >= n

Exhausted(i, n) == i >= n

\* self.index += 1; self.log.append(self.current_trial); the next trial or
\* "done"; self.update_cost() (which changes nothing, enable being False);
\* self.update_window().  The utility, activation and cost traces read
\* from the engine before that are diagnostics and are left out.
after_stimulus ==
    /\ Ran("ran-stimulus")
    /\ index' = NextIndex(index)
    /\ log' = AppendLog(log, current_trial)
    /\ IF Exhausted(index', Len(stimuli))
       THEN /\ phase' = "done"
            /\ UNCHANGED <<current_trial, trials>>
       ELSE /\ trials' = Append(trials, SimonTrial(StimulusAt(index')))
            /\ current_trial' = Len(trials')
            /\ phase' = "fixation"
    /\ pc' = "call"
    /\ UNCHANGED <<call, stimuli, motivation, depth, now, goal, pending, screen,
                   presses>>

(***************************************************************************)
(* The device under an engine that may do anything.                        *)
(***************************************************************************)
Next ==
    \/ setup
    \/ update_window_done
    \/ update_window_fixation
    \/ update_window_cue
    \/ update_window_stimulus
    \/ update_window_return
    \/ tick
    \/ \E step \in GoalSteps : run_returns(step)
    \/ set_motivation
    \/ fixation
    \/ cue
    \/ stimulus
    \/ \E response \in Keys : accept_response(response)
    \/ after_done
    \/ after_fixation
    \/ after_cue
    \/ after_stimulus

Spec == Init /\ [][Next]_vars

(***************************************************************************)
(* The device under an engine whose goal step cycles None, ATTEND-CUE,     *)
(* ATTEND-STIMULUS for each trial: whenever update_window is called, the   *)
(* STEP slot holds the step of the phase the task is in.                   *)
(***************************************************************************)
StepOf(ph) ==
    CASE ph = "fixation" -> None
      [] ph = "cue" -> "ATTEND-CUE"
      [] ph = "stimulus" -> "ATTEND-STIMULUS"
      [] OTHER -> goal

NextCycle ==
    \/ setup
    \/ update_window_done
    \/ update_window_fixation
    \/ update_window_cue
    \/ update_window_stimulus
    \/ tick
    \/ \E step \in GoalSteps : run_returns(step)
    \/ set_motivation
    \/ fixation
    \/ cue
    \/ stimulus
    \/ \E response \in Keys : accept_response(response)
    \/ after_done
    \/ after_fixation /\ goal = StepOf("cue")
    \/ after_cue /\ goal = StepOf("stimulus")
    \/ after_stimulus /\ goal = StepOf(phase')

SpecCycle == Init /\ [][NextCycle]_vars

(***************************************************************************)
(* The device under any engine, the motivation parameter being zero or     *)
(* not.                                                                    *)
(***************************************************************************)
InitMotivation ==
    /\ stimuli \in StimulusSequences
    /\ index = -1
    /\ phase = "unset"
    /\ log = <<>>
    /\ current_trial = 0
    /\ trials = <<>>
    /\ motivation \in {0, 1}
    /\ pc = "constructed"
    /\ depth = 0
    /\ now = 0
    /\ goal = None
    /\ pending = {}
    /\ screen = "blank"
    /\ presses = 0
    /\ call = NoCall

SpecMotivation == InitMotivation /\ [][Next]_vars

(***************************************************************************)
(* Properties of the trial sequencer.                                      *)
(***************************************************************************)
N == Len(stimuli)

AfterSetup == pc # "constructed"

\* the number of update_window calls made when the task stands at the start
\* of the step of phase ph of trial i (0-based): three calls a trial
CallsBefore(i, ph) ==
    3 * i + CASE ph = "fixation" -> 0
              [] ph = "cue" -> 1
              [] ph = "stimulus" -> 2
              [] OTHER -> 0

\* C1: under an engine whose goal step cycles None, ATTEND-CUE,
\* ATTEND-STIMULUS, every call of update_window made before "done" is the
\* step of the current phase of the current trial, three calls a trial in
\* the order fixation, cue, stimulus; so phase becomes "done" after exactly
\* N cycles, and then len(log) == N.
C1_ExactlyNCycles ==
    /\ (pc \in {"ready", "call"} /\ phase \in {"fixation", "cue", "stimulus"})
          => /\ depth = CallsBefore(index, phase)
             /\ Branch(phase, get_actr_goal_step) = phase
    /\ (pc = "call" /\ phase = "done") => depth = 3 * N
    /\ phase = "done" => Len(log) = N /\ index = N

C1_Witness ==
    /\ phase = "done"
    /\ pc = "call"
    /\ N > 1
    /\ depth = 3 * N
    /\ Len(log) = N

\* C2: between the steps of update_window, after setup, len(log) == index.
C2_LogLengthIsIndex ==
    AfterSetup => Len(log) = index

C2_Witness ==
    /\ pc = "call"
    /\ phase = "fixation"
    /\ index = 1
    /\ Len(log) = 1

\* C3 as stated: a call of accept_response in the stimulus phase of a trial
\* that already has a response leaves the trial as it is (first response
\* wins).
C3_FirstResponseWins ==
    [][\A response \in Keys :
          (accept_response(response) /\ phase = "stimulus"
              /\ Cur.response # None)
          => trials' = trials]_vars

\* C3 as amended: every call of accept_response while phase == "stimulus"
\* sets the response of the current trial to the key of that call and its
\* offset to the time of that call, whatever an earlier call recorded (last
\* response wins).
C3_LastResponseWins ==
    [][\A response \in Keys :
          (accept_response(response) /\ phase = "stimulus")
          => /\ trials'[current_trial].response = response
             /\ trials'[current_trial].offset = now
             /\ \A t \in DOMAIN trials :
                    t # current_trial => trials'[t] = trials[t]]_vars

C3_Witness ==
    /\ pc = "run-stimulus"
    /\ phase = "stimulus"
    /\ presses = 2
    /\ Cur.response # None
    /\ Cur.offset = now
    /\ Cur.offset > Cur.onset

\* C4: a call of accept_response while phase is "fixation", "cue" or "done"
\* changes neither the response or offset of any trial nor index, phase,
\* log or current_trial.
C4_OutOfPhaseIgnored ==
    [][\A response \in Keys :
          (accept_response(response) /\ phase \in {"fixation", "cue", "done"})
          => UNCHANGED <<index, phase, log, current_trial, trials>>]_vars

C4_Witness ==
    /\ pc = "run-done"
    /\ phase = "done"
    /\ presses > 0
    /\ Cur.response = None

\* C5: every trial of log has offset >= onset, whether or not a response
\* was accepted during its stimulus step.
C5_OffsetNotBeforeOnset ==
    \A i \in 1..Len(log) : LogTrials[i].offset >= LogTrials[i].onset

\* C6: whatever the engine does, phase changes only along the edges
\* fixation -> cue, cue -> stimulus, stimulus -> fixation, stimulus -> done.
PhaseEdges ==
    {<<"fixation", "cue">>, <<"cue", "stimulus">>,
     <<"stimulus", "fixation">>, <<"stimulus", "done">>}

C6_PhaseEdges ==
    [][(AfterSetup /\ phase' # phase) => <<phase, phase'>> \in PhaseEdges]_vars

\* C7: once phase == "done", no step changes index, log, current_trial,
\* phase or any trial, and a call of update_window shows the done screen:
\* "done" is absorbing.
C7_DoneAbsorbing ==
    [][phase = "done"
          => /\ UNCHANGED <<index, log, current_trial, phase, trials>>
             /\ (pc \in {"call", "returned"} /\ pc' # pc)
                    => (pc' = "run-done" /\ screen' = "done")]_vars

C7_Witness ==
    /\ phase = "done"
    /\ pc = "run-done"
    /\ depth = 1
    /\ screen = "done"

\* C8: the i-th trial of log is a trial on the i-th stimulus.
C8_LoggedInSequenceOrder ==
    \A i \in 1..Len(log) : LogTrials[i].stimulus = stimuli[i]

C8_Witness ==
    /\ Len(log) = 2
    /\ LogTrials[1].stimulus = stimuli[1]
    /\ LogTrials[2].stimulus = stimuli[2]
    /\ stimuli[1] # stimuli[2]

\* C9: after setup no step decreases index, and log only grows at its end:
\* the entries it has stay where they are.
C9_IndexAndLogGrow ==
    [][AfterSetup
          => /\ index' >= index
             /\ Len(log') >= Len(log)
             /\ \A i \in 1..Len(log) : log'[i] = log[i]]_vars

C9_Witness ==
    /\ index = 2
    /\ log = <<1, 2>>
    /\ phase = "done"

\* C10: right after setup, phase == "fixation", index == 0, log is empty
\* and current_trial is a fresh trial on the first stimulus: no response,
\* onset and offset 0.
C10_StateAfterSetup ==
    pc = "ready"
        => /\ phase = "fixation"
           /\ index = 0
           /\ log = <<>>
           /\ Cur.stimulus = stimuli[1]
           /\ Cur.response = None
           /\ Cur.onset = 0
           /\ Cur.offset = 0

C10_Witness ==
    /\ pc = "ready"
    /\ current_trial = 1
    /\ Cur.stimulus = stimuli[1]

(***************************************************************************)
(* SimonTask.generate_stimuli.  valid_cue_percentage is counted in         *)
(* quarters, the values the simulations use (0, 0.25, 0.5, 0.75, 1), for   *)
(* which the products n_trials * p and n_trials * (1 - p) are exact in     *)
(* floating point.                                                         *)
(***************************************************************************)
\* most trials asked of generate_stimuli without shuffling
MaxTrials == 3
\* most trials asked of generate_stimuli with shuffling
MaxShuffleTrials == 1

\* valid_cue_percentage in quarters: the values in [0, 1], and two outside
Quarters == 0..4

BadQuarters == {0 - 1, 5}

\* the template lists of generate_stimuli: (shape, location, cue) tuples
congr_valid ==
    <<<<"CIRCLE", "LEFT", "LEFT">>, <<"SQUARE", "RIGHT", "RIGHT">>>>

incongr_valid ==
    <<<<"CIRCLE", "RIGHT", "LEFT">>, <<"SQUARE", "LEFT", "RIGHT">>>>

congr_invalid ==
    <<<<"CIRCLE", "LEFT", "RIGHT">>, <<"SQUARE", "RIGHT", "LEFT">>>>

incongr_invalid ==
    <<<<"CIRCLE", "RIGHT", "RIGHT">>, <<"SQUARE", "LEFT", "LEFT">>>>

\* Python's int(num / den) for den > 0: truncation towards zero
PyInt_Round(num, den) ==
    IF num >= 0 THEN (2 * num + den) \div (2 * den)
    ELSE 0 - ((2 * (0 - num) + den) \div (2 * den))

PyInt(num, den) ==
    IF num >= 0 THEN num \div den ELSE 0 - ((0 - num) \div den)

\* Python's lst * k: k copies of lst, none when k <= 0
RECURSIVE Times(_, _)
Times(lst, k) == IF k <= 0 THEN <<>> ELSE lst \o Times(lst, k - 1)

\* int(n_trials * valid_cue_percentage), int(n_trials * (1 - ...))
ValidCopies(n_trials, p4) == PyInt(n_trials * p4, 4)

InvalidCopies(n_trials, p4) == PyInt(n_trials * (4 - p4), 4)

\* lst = valid + invalid
TemplateList_ValidOnly(n_trials, p4) ==
    Times(congr_valid, ValidCopies(n_trials, p4))
        \o Times(incongr_valid, ValidCopies(n_trials, p4))
        \o Times(congr_invalid, ValidCopies(n_trials, p4))
        \o Times(incongr_invalid, ValidCopies(n_trials, p4))

TemplateList(n_trials, p4) ==
    Times(congr_valid, ValidCopies(n_trials, p4))
        \o Times(incongr_valid, ValidCopies(n_trials, p4))
        \o Times(congr_invalid, InvalidCopies(n_trials, p4))
        \o Times(incongr_invalid, InvalidCopies(n_trials, p4))

\* random.shuffle(lst): for i from len(lst) - 1 down to 1, x[i] and x[j]
\* are swapped for a random j in 0..i.  i and j are 0-based.
Swap_Overwrite(lst, i, j) ==
    [lst EXCEPT ![i + 1] = lst[j + 1]]

Swap(lst, i, j) ==
    [lst EXCEPT ![i + 1] = lst[j + 1], ![j + 1] = lst[i + 1]]

\* the lists the passes from index i down to 1 can leave
RECURSIVE ShuffleFrom(_, _)
ShuffleFrom(lst, i) ==
    IF i < 1 THEN {lst}
    ELSE UNION {ShuffleFrom(Swap(lst, i, j), i - 1) : j \in 0..i}

shuffle(lst) == ShuffleFrom(lst, Len(lst) - 1)

\* SimonStimulus.congruent, incongruent, valid, invalid
congruent(stim) == SIMON_MAPPINGS[stim.shape] = stim.location

incongruent_Always(stim) == TRUE

incongruent(stim) == SIMON_MAPPINGS[stim.shape] # stim.location

valid_ByLocation(stim) == SIMON_MAPPINGS[stim.shape] = stim.location

valid(stim) == SIMON_MAPPINGS[stim.shape] = stim.cue

invalid(stim) == SIMON_MAPPINGS[stim.shape] # stim.cue

\* the assertion of SimonStimulus.__init__
AssertionError == "AssertionError"

InDomain_NoCueCheck(shape, location, cueloc) ==
    shape \in SHAPES /\ location \in LOCATIONS

InDomain(shape, location, cueloc) ==
    shape \in SHAPES /\ location \in LOCATIONS /\ cueloc \in LOCATIONS

\* [SimonStimulus(shape=x[0], location=x[1], cue=x[2]) for x in lst]
Stimuli(lst) ==
    [k \in 1..Len(lst) |-> SimonStimulus(lst[k][1], lst[k][2], lst[k][3])]

Raises(lst) ==
    IF \A k \in 1..Len(lst) : InDomain(lst[k][1], lst[k][2], lst[k][3])
    THEN None ELSE AssertionError

\* the arguments the model calls generate_stimuli with
GenerateArgs ==
    {[shuffle |-> FALSE, n_trials |-> n, p4 |-> q] :
        n \in (0 - 1)..MaxTrials, q \in Quarters \cup BadQuarters}
    \cup {[shuffle |-> TRUE, n_trials |-> n, p4 |-> q] :
        n \in 0..MaxShuffleTrials, q \in Quarters}

generate_stimuli(args) ==
    /\ pc = "calls"
    /\ call = NoCall
    /\ \E lst \in IF args.shuffle
                  THEN shuffle(TemplateList(args.n_trials, args.p4))
                  ELSE {TemplateList(args.n_trials, args.p4)} :
          call' = [fn |-> "generate_stimuli", args |-> args,
                   raised |-> Raises(lst), result |-> Stimuli(lst)]
    /\ UNCHANGED <<stimuli, motivation, pc, depth, now, goal, pending, screen,
                   presses>>
    /\ UNCHANGED task

\* SimonStimulus(shape, location, cue): cue is a required argument, and a
\* call without it fails before the body is entered
Missing == "missing"

TypeError == "TypeError"

ShapeArgs == SHAPES \cup {"TRIANGLE"}

LocationArgs == LOCATIONS \cup {"CENTER"}

CueArgs == LOCATIONS \cup {"CENTER", None, Missing}

call_SimonStimulus(shape, location, cueloc) ==
    /\ pc = "calls"
    /\ call = NoCall
    /\ LET raised == IF cueloc = Missing THEN TypeError
                     ELSE IF InDomain(shape, location, cueloc) THEN None
                     ELSE AssertionError
       IN  call' = [fn |-> "SimonStimulus",
                    args |-> [shape |-> shape, location |-> location,
                              cue |-> cueloc],
                    raised |-> raised,
                    result |-> IF raised = None
                               THEN SimonStimulus(shape, location, cueloc)
                               ELSE None]
    /\ UNCHANGED <<stimuli, motivation, pc, depth, now, goal, pending, screen,
                   presses>>
    /\ UNCHANGED task

\* SimonTrial.correct_response and SimonTrial.accuracy
correct_response_ByLocation(trial) ==
    RESPONSE_MAPPINGS[trial.stimulus.location]

correct_response(trial) ==
    RESPONSE_MAPPINGS[SIMON_MAPPINGS[trial.stimulus.shape]]

accuracy(trial) ==
    IF trial.response # None /\ trial.response = correct_response(trial)
    THEN 1 ELSE 0

\* the responses a trial can hold: none, the two keys of the task, another
Responses == {None} \cup Keys \cup {"k"}

call_accuracy(stim, response) ==
    /\ pc = "calls"
    /\ call = NoCall
    /\ LET trial == [SimonTrial(stim) EXCEPT !.response = response]
       IN  call' = [fn |-> "accuracy", args |-> trial, raised |-> None,
                    result |-> accuracy(trial)]
    /\ UNCHANGED <<stimuli, motivation, pc, depth, now, goal, pending, screen,
                   presses>>
    /\ UNCHANGED task

(***************************************************************************)
(* SimonTask.run_stats.  A mean is kept as the sum and the count it is     *)
(* the quotient of; NaN is the mean of nothing.                            *)
(***************************************************************************)
CUE_CONDITIONS ==
    <<"CONGRUENT-VALID", "CONGRUENT-INVALID",
      "INCONGRUENT-VALID", "INCONGRUENT-INVALID">>

NaN == [sum |-> 0, over |-> 0]

Mean(sum, over) == [sum |-> sum, over |-> over]

ZeroDivisionError == "ZeroDivisionError"

\* the filtered lists of run_stats
cong_valid(l) ==
    SelectSeq(l, LAMBDA x : congruent(x.stimulus) /\ valid(x.stimulus))

incn_valid(l) ==
    SelectSeq(l, LAMBDA x : incongruent(x.stimulus) /\ valid(x.stimulus))

cong_invalid(l) ==
    SelectSeq(l, LAMBDA x : congruent(x.stimulus) /\ invalid(x.stimulus))

incn_invalid(l) ==
    SelectSeq(l, LAMBDA x : incongruent(x.stimulus) /\ invalid(x.stimulus))

\* the lists zipped with CUE_CONDITIONS in the loop of run_stats
Zipped_AsDefined(l) ==
    <<cong_valid(l), incn_valid(l), cong_invalid(l), incn_invalid(l)>>

Zipped(l) ==
    <<cong_valid(l), cong_invalid(l), incn_valid(l), incn_invalid(l)>>

\* if len(data) > 0
HasData_Always(data) == TRUE

HasData(data) == Len(data) > 0

\* sum([x.accuracy for x in data]), sum([x.response_time for x in data])
RECURSIVE SumAccuracy(_)
SumAccuracy(data) ==
    IF data = <<>> THEN 0 ELSE accuracy(Head(data)) + SumAccuracy(Tail(data))

RECURSIVE SumResponseTime(_)
SumResponseTime(data) ==
    IF data = <<>> THEN 0
    ELSE response_time(Head(data)) + SumResponseTime(Tail(data))

\* the index of a condition in CUE_CONDITIONS
Position(cond) == CHOOSE k \in 1..Len(CUE_CONDITIONS) : CUE_CONDITIONS[k] = cond

\* whether the loop of run_stats computes the means of a list
Computes(l, data) == Len(l) > 0 /\ HasData(data)

\* the mapping R that run_stats returns
run_stats(l) ==
    [cond \in {CUE_CONDITIONS[k] : k \in 1..Len(CUE_CONDITIONS)} |->
        LET data == Zipped(l)[Position(cond)]
        IN  IF Computes(l, data)
            THEN <<Len(data), Mean(SumAccuracy(data), Len(data)),
                   Mean(SumResponseTime(data), Len(data))>>
            ELSE <<0, NaN, NaN>>]

\* a division by len(data) == 0 raises
run_stats_raises(l) ==
    IF \E k \in 1..Len(CUE_CONDITIONS) :
          Computes(l, Zipped(l)[k]) /\ Len(Zipped(l)[k]) = 0
    THEN ZeroDivisionError ELSE None

\* most trials in a log handed to run_stats
MaxLog == 2

\* what a logged trial can hold: no response (offset never set), or a key
\* accepted some time after the onset
Outcomes ==
    {[response |-> None, onset |-> 1, offset |-> 0],
     [response |-> "f", onset |-> 1, offset |-> 3],
     [response |-> "j", onset |-> 1, offset |-> 4]}

LoggedTrials ==
    {[stimulus |-> stim, onset |-> o.onset, offset |-> o.offset,
      response |-> o.response] : stim \in AllStimuli, o \in Outcomes}

Logs == UNION {[1..n -> LoggedTrials] : n \in 0..MaxLog}

StatsOf(l) ==
    [fn |-> "run_stats", args |-> l, raised |-> run_stats_raises(l),
     result |-> run_stats(l)]

call_run_stats(l) ==
    /\ pc = "calls"
    /\ call = NoCall
    /\ call' = StatsOf(l)
    /\ UNCHANGED <<stimuli, motivation, pc, depth, now, goal, pending, screen,
                   presses>>
    /\ UNCHANGED task

(***************************************************************************)
(* stats_qc.                                                               *)
(***************************************************************************)
CONDITIONS == <<"CONGRUENT", "INCONGRUENT">>

\* the number of trials stats_qc expects of a condition
ExpectedTrials == 20

KeyError == "KeyError"

\* a mean that is a real number
Real == Mean(10, 20)

\* the triples of the mappings handed to stats_qc: a full condition, an
\* empty one, and one a trial short
Triples ==
    {<<ExpectedTrials, Real, Real>>, <<0, NaN, NaN>>,
     <<ExpectedTrials - 1, Real, Real>>}

StatsKeys ==
    {CUE_CONDITIONS[k] : k \in 1..Len(CUE_CONDITIONS)}
        \cup {CONDITIONS[k] : k \in 1..Len(CONDITIONS)}

StatsMappings == UNION {[keys -> Triples] : keys \in SUBSET StatsKeys}

\* for condition, expected in zip(CONDITIONS, [20, 20]):
\*     if stats[condition][0] is not expected: numtrials_check = False
numtrials_check(stats) ==
    \A k \in 1..Len(CONDITIONS) : stats[CONDITIONS[k]][1] = ExpectedTrials

\* len([x for x in allvalues if x is not np.nan]), allvalues being the
\* triples of the CONDITIONS keys; a count of trials is an integer, never
\* np.nan
RECURSIVE NotNaN(_, _)
NotNaN(stats, k) ==
    IF k = 0 THEN 0
    ELSE LET triple == stats[CONDITIONS[k]]
         IN  1 + (IF triple[2] # NaN THEN 1 ELSE 0)
               + (IF triple[3] # NaN THEN 1 ELSE 0)
               + NotNaN(stats, k - 1)

\* stats[condition] on a mapping without the key
stats_qc_raises_Never(stats) == None

stats_qc_raises(stats) ==
    IF /\ Cardinality(DOMAIN stats) = 3
       /\ \E k \in 1..Len(CONDITIONS) : CONDITIONS[k] \notin DOMAIN stats
    THEN KeyError ELSE None

\* the value stats_qc returns when it does not raise
stats_qc(stats) ==
    IF Cardinality(DOMAIN stats) = 3
    THEN IF numtrials_check(stats)
         THEN NotNaN(stats, Len(CONDITIONS)) = 9
         ELSE FALSE
    ELSE FALSE

call_stats_qc(stats) ==
    /\ pc = "calls"
    /\ call = NoCall
    /\ call' = [fn |-> "stats_qc", args |-> stats,
                raised |-> stats_qc_raises(stats),
                result |-> IF stats_qc_raises(stats) = None
                           THEN stats_qc(stats) ELSE FALSE]
    /\ UNCHANGED <<stimuli, motivation, pc, depth, now, goal, pending, screen,
                   presses>>
    /\ UNCHANGED task

(***************************************************************************)
(* SimonTask.set_parameters.  kwargs is a dict, which Python walks in the  *)
(* order its keys were inserted: a sequence of (key, value) pairs with     *)
(* distinct keys.  Values are in hundredths.                               *)
(***************************************************************************)
\* the names get_parameters_name lists
get_parameters_name ==
    {"seed", "ans", "le", "mas", "egs", "alpha", "imaginal-activation", "dat"}

\* self.parameters before the call: get_default_parameters, of which the
\* model keeps the keys it needs
get_default_parameters ==
    [key \in {"seed", "ans", "motivation", "at"} |->
        CASE key = "seed" -> 0
          [] key = "ans" -> 20
          [] key = "motivation" -> 100
          [] key = "at" -> 5]

\* the keys and values the model passes: the two options of the device, a
\* parameter of the engine, and a key that is no option of either
ParamKeys == {"motivation", "at", "ans", "n_trials"}

ParamValues == {10, 200}

\* most keys in a kwargs
MaxKeys == 2

Kwargs ==
    {kw \in UNION {[1..n -> ParamKeys \X ParamValues] : n \in 0..MaxKeys} :
        \A i, j \in 1..Len(kw) : kw[i][1] = kw[j][1] => i = j}

\* ':' + key
Colon(key) == <<":", key>>

\* str(self.parameters["seed"])
str(value) == [str |-> value]

\* what the loop sends to the engine for one key
SentFor(key, value) ==
    IF key = "motivation" THEN <<>>
    ELSE IF key = "at" THEN <<[fn |-> "spp", name |-> Colon("at"), value |-> value]>>
    ELSE <<[fn |-> "set_parameter_value", name |-> Colon(key),
            value |-> value]>>

RECURSIVE SentForAll(_)
SentForAll(kw) ==
    IF kw = <<>> THEN <<>>
    ELSE SentFor(Head(kw)[1], Head(kw)[2]) \o SentForAll(Tail(kw))

\* update_parameters.update(kwargs)
RECURSIVE update(_, _)
update(params, kw) ==
    IF kw = <<>> THEN params
    ELSE update([key \in DOMAIN params \cup {Head(kw)[1]} |->
                    IF key = Head(kw)[1] THEN Head(kw)[2] ELSE params[key]],
                Tail(kw))

\* the calls sent to the engine, and self.parameters after the call
set_parameters(parameters, kw) ==
    LET updated == IF kw # <<>> THEN update(parameters, kw) ELSE parameters
    IN  [sent |-> IF kw # <<>> THEN SentForAll(kw)
                  ELSE <<[fn |-> "spp", name |-> Colon("at"),
                          value |-> parameters["at"]]>>,
         parameters |-> [updated EXCEPT !["seed"] = str(updated["seed"])]]

call_set_parameters(kw) ==
    /\ pc = "calls"
    /\ call = NoCall
    /\ call' = [fn |-> "set_parameters", args |-> kw, raised |-> None,
                result |-> set_parameters(get_default_parameters, kw)]
    /\ UNCHANGED <<stimuli, motivation, pc, depth, now, goal, pending, screen,
                   presses>>
    /\ UNCHANGED task

\* SimonStimulus.kind and SimonStimulus.cue_kind
kind(stim) ==
    IF congruent(stim) THEN "congruent"
    ELSE IF incongruent(stim) THEN "incongruent"
    ELSE ""

cue_kind(stim) ==
    IF valid(stim) THEN "valid"
    ELSE IF invalid(stim) THEN "invalid"
    ELSE ""

\* the derived properties of a stimulus, read one after the other
call_properties(stim) ==
    /\ pc = "calls"
    /\ call = NoCall
    /\ call' = [fn |-> "properties", args |-> stim, raised |-> None,
                result |-> [congruent |-> congruent(stim),
                            incongruent |-> incongruent(stim),
                            valid |-> valid(stim),
                            invalid |-> invalid(stim),
                            kind |-> kind(stim),
                            cue_kind |-> cue_kind(stim)]]
    /\ UNCHANGED <<stimuli, motivation, pc, depth, now, goal, pending, screen,
                   presses>>
    /\ UNCHANGED task

(***************************************************************************)
(* SimonTask.__init__ followed by SimonTask.setup.  An attribute of the    *)
(* task is a record that says whether it has been assigned.  The stimuli   *)
(* argument <<>> stands for None and for the empty list, which "not        *)
(* stimuli" treats alike.                                                  *)
(***************************************************************************)
AttributeError == "AttributeError"

Unassigned == [assigned |-> FALSE, value |-> <<>>]

Assigned(value) == [assigned |-> TRUE, value |-> value]

\* self.stimuli after __init__(stimuli, ...), generated being what
\* generate_stimuli() gives
SimonTask_init(arg, generated) ==
    IF arg = <<>> THEN Assigned(generated) ELSE Unassigned

\* setup() reads self.stimuli[self.index], index being 0
SetupRaises(attr) == IF attr.assigned THEN None ELSE AttributeError

call_SimonTask(arg, generated) ==
    /\ pc = "calls"
    /\ call = NoCall
    /\ LET attr == SimonTask_init(arg, generated)
       IN  call' = [fn |-> "SimonTask", args |-> [stimuli |-> arg],
                    raised |-> SetupRaises(attr),
                    result |-> [stimuli |-> attr,
                                current_trial |->
                                    IF attr.assigned
                                    THEN Assigned(SimonTrial(attr.value[1]))
                                    ELSE Unassigned]]
    /\ UNCHANGED <<stimuli, motivation, pc, depth, now, goal, pending, screen,
                   presses>>
    /\ UNCHANGED task

\* the call returns, and the next can be made
forget ==
    /\ pc = "calls"
    /\ call # NoCall
    /\ call' = NoCall
    /\ UNCHANGED <<stimuli, motivation, pc, depth, now, goal, pending, screen,
                   presses>>
    /\ UNCHANGED task

InitCalls ==
    /\ stimuli = <<>>
    /\ index = -1
    /\ phase = "unset"
    /\ log = <<>>
    /\ current_trial = 0
    /\ trials = <<>>
    /\ motivation = 1
    /\ pc = "calls"
    /\ depth = 0
    /\ now = 0
    /\ goal = None
    /\ pending = {}
    /\ screen = "blank"
    /\ presses = 0
    /\ call = NoCall

NextCalls ==
    \/ \E args \in GenerateArgs : generate_stimuli(args)
    \/ \E shape \in ShapeArgs, location \in LocationArgs, cueloc \in CueArgs :
          call_SimonStimulus(shape, location, cueloc)
    \/ \E stim \in AllStimuli, response \in Responses :
          call_accuracy(stim, response)
    \/ \E l \in Logs : call_run_stats(l)
    \/ \E stats \in StatsMappings : call_stats_qc(stats)
    \/ \E kw \in Kwargs : call_set_parameters(kw)
    \/ \E stim \in AllStimuli : call_properties(stim)
    \/ \E arg \in StimulusSequences \cup {<<>>},
          generated \in StimulusSequences : call_SimonTask(arg, generated)
    \/ forget

SpecCalls == InitCalls /\ [][NextCalls]_vars

(***************************************************************************)
(* The task abandoned: whatever the phase, whenever the engine is not      *)
(* running (actr.run blocks its caller), the caller stops driving the      *)
(* task and asks for its statistics.                                       *)
(***************************************************************************)
abandon ==
    /\ pc \notin {"calls", "abandoned"}
    /\ ~Running
    /\ call = NoCall
    /\ call' = StatsOf(LogTrials)
    /\ pc' = "abandoned"
    /\ UNCHANGED <<stimuli, motivation, depth, now, goal, pending, screen,
                   presses>>
    /\ UNCHANGED task

NextStats ==
    \/ Next
    \/ abandon

SpecStats == Init /\ [][NextStats]_vars

(***************************************************************************)
(* Properties of generate_stimuli.                                         *)
(***************************************************************************)
Generated == call.fn = "generate_stimuli"

\* the arguments the contract of generate_stimuli covers
InContract == call.args.n_trials >= 0 /\ call.args.p4 \in Quarters

\* how many stimuli of a sequence are of a condition
CongruentValid(seq) ==
    Cardinality({k \in 1..Len(seq) : congruent(seq[k]) /\ valid(seq[k])})

IncongruentValid(seq) ==
    Cardinality({k \in 1..Len(seq) : incongruent(seq[k]) /\ valid(seq[k])})

CongruentInvalid(seq) ==
    Cardinality({k \in 1..Len(seq) : congruent(seq[k]) /\ invalid(seq[k])})

IncongruentInvalid(seq) ==
    Cardinality({k \in 1..Len(seq) : incongruent(seq[k]) /\ invalid(seq[k])})

\* Python's round(num / den) for num >= 0, den > 0: halves go to the even
PyRound(num, den) ==
    LET fl == num \div den
        twice == 2 * (num % den)
    IN  IF twice < den THEN fl
        ELSE IF twice > den THEN fl + 1
        ELSE IF fl % 2 = 0 THEN fl ELSE fl + 1

\* C11 as stated: each valid-cue condition has round(n_trials * p) stimuli
\* and each invalid-cue condition round(n_trials * (1 - p)), the length
\* being the sum of the four counts.
C11_RoundedCounts ==
    (Generated /\ InContract) =>
        LET n == call.args.n_trials
            q == call.args.p4
            seq == call.result
        IN  /\ call.raised = None
            /\ CongruentValid(seq) = PyRound(n * q, 4)
            /\ IncongruentValid(seq) = PyRound(n * q, 4)
            /\ CongruentInvalid(seq) = PyRound(n * (4 - q), 4)
            /\ IncongruentInvalid(seq) = PyRound(n * (4 - q), 4)
            /\ Len(seq) = 2 * PyRound(n * q, 4) + 2 * PyRound(n * (4 - q), 4)

\* C11, amended: for n_trials >= 0 and p in {0, 0.25, 0.5, 0.75, 1}, each
\* valid-cue condition has exactly 2 * floor(n_trials * p) stimuli, each
\* invalid-cue condition exactly 2 * floor(n_trials * (1 - p)), and the
\* length of the sequence is the sum of the four counts.
C11_TwiceFloorCounts ==
    (Generated /\ InContract) =>
        LET n == call.args.n_trials
            q == call.args.p4
            seq == call.result
        IN  /\ call.raised = None
            /\ CongruentValid(seq) = 2 * ((n * q) \div 4)
            /\ IncongruentValid(seq) = 2 * ((n * q) \div 4)
            /\ CongruentInvalid(seq) = 2 * ((n * (4 - q)) \div 4)
            /\ IncongruentInvalid(seq) = 2 * ((n * (4 - q)) \div 4)
            /\ Len(seq) = CongruentValid(seq) + IncongruentValid(seq)
                            + CongruentInvalid(seq) + IncongruentInvalid(seq)

\* three trials at p = 0.5 were asked for: one copy of each template
C11_Witness ==
    /\ Generated
    /\ call.args.n_trials = 3
    /\ call.args.p4 = 2
    /\ Len(call.result) = 8
    /\ CongruentValid(call.result) = 2
    /\ IncongruentInvalid(call.result) = 2

\* how many times a value occurs in a sequence
Occurrences(seq, x) == Cardinality({k \in 1..Len(seq) : seq[k] = x})

\* the stimuli of a template list, as a set
Of(template) ==
    {SimonStimulus(template[k][1], template[k][2], template[k][3]) :
        k \in 1..Len(template)}

ValidTuples == Of(congr_valid) \cup Of(incongr_valid)

InvalidTuples == Of(congr_invalid) \cup Of(incongr_invalid)

\* C12: generate_stimuli returns each of the four valid-cue tuples exactly
\* floor(n_trials * p) times, each of the four invalid-cue tuples exactly
\* floor(n_trials * (1 - p)) times and nothing else, and the tuples of a
\* template are, under congruent/incongruent and valid/invalid, of the
\* condition the template is named for.
C12_TemplatesReplicated ==
    (Generated /\ InContract) =>
        LET n == call.args.n_trials
            q == call.args.p4
            seq == call.result
        IN  /\ call.raised = None
            /\ Cardinality(ValidTuples) = 4
            /\ Cardinality(InvalidTuples) = 4
            /\ ValidTuples \cap InvalidTuples = {}
            /\ \A x \in ValidTuples : Occurrences(seq, x) = (n * q) \div 4
            /\ \A x \in InvalidTuples :
                  Occurrences(seq, x) = (n * (4 - q)) \div 4
            /\ \A k \in 1..Len(seq) : seq[k] \in ValidTuples \cup InvalidTuples
            /\ \A x \in Of(congr_valid) : congruent(x) /\ valid(x)
            /\ \A x \in Of(incongr_valid) : incongruent(x) /\ valid(x)
            /\ \A x \in Of(congr_invalid) : congruent(x) /\ invalid(x)
            /\ \A x \in Of(incongr_invalid) : incongruent(x) /\ invalid(x)

\* three trials at p = 0.25: no valid-cue tuple, each invalid-cue one twice
C12_Witness ==
    /\ Generated
    /\ call.args.n_trials = 3
    /\ call.args.p4 = 1
    /\ Len(call.result) = 8
    /\ \A x \in InvalidTuples : Occurrences(call.result, x) = 2

\* C13: for the same n_trials and valid_cue_percentage, the sequence
\* returned with shuffle=True has the same multiset of (shape, location,
\* cue) tuples as the one returned with shuffle=False.
C13_ShuffleKeepsMultiset ==
    (Generated /\ call.args.shuffle) =>
        LET plain == Stimuli(TemplateList(call.args.n_trials, call.args.p4))
        IN  /\ Len(call.result) = Len(plain)
            /\ \A x \in AllStimuli :
                  Occurrences(call.result, x) = Occurrences(plain, x)

\* a shuffled call returned the tuples in another order than the plain one
C13_Witness ==
    /\ Generated
    /\ call.args.shuffle
    /\ Len(call.result) = 4
    /\ call.result # Stimuli(TemplateList(call.args.n_trials, call.args.p4))

InvalidParameter == "InvalidParameter"

\* C14: generate_stimuli fails with InvalidParameter, returning no
\* sequence, whenever n_trials < 0 or valid_cue_percentage is outside
\* [0, 1].
C14_InvalidParameterRaised ==
    (Generated /\ ~InContract) => call.raised = InvalidParameter

(***************************************************************************)
(* Properties of SimonStimulus and SimonTrial.                             *)
(***************************************************************************)
Constructed == call.fn = "SimonStimulus"

\* C15 as stated: construction succeeds exactly when shape and location
\* are in their domains and the cue, if one is given, is in LOCATIONS; a
\* stimulus without a cue is constructible.
C15_CueOptional ==
    Constructed =>
        (call.raised = None <=>
            /\ call.args.shape \in SHAPES
            /\ call.args.location \in LOCATIONS
            /\ call.args.cue \in LOCATIONS \cup {None, Missing})

\* C15, amended: construction succeeds exactly when shape is in SHAPES,
\* location is in LOCATIONS and a cue is given that is in LOCATIONS (a
\* stimulus without a cue, or with cue None, is not constructible); every
\* stimulus that exists has in-domain shape, location and cue.
C15_CueRequired ==
    Constructed =>
        /\ call.raised = None <=>
              /\ call.args.shape \in SHAPES
              /\ call.args.location \in LOCATIONS
              /\ call.args.cue \in LOCATIONS
        /\ call.raised = None =>
              /\ call.result.shape \in SHAPES
              /\ call.result.location \in LOCATIONS
              /\ call.result.cue \in LOCATIONS

\* a construction with cue None, shape and location in domain, has failed
C15_Witness ==
    /\ Constructed
    /\ call.args.shape \in SHAPES
    /\ call.args.location \in LOCATIONS
    /\ call.args.cue = None
    /\ call.raised = AssertionError

\* C16: accuracy is 0.0 or 1.0; it is 1.0 exactly when response equals
\* correct_response, which is "f" for CIRCLE and "j" for SQUARE; a trial
\* with response None has accuracy 0.0.
C16_Accuracy ==
    call.fn = "accuracy" =>
        LET trial == call.args
            expected == IF trial.stimulus.shape = "CIRCLE" THEN "f" ELSE "j"
        IN  /\ call.raised = None
            /\ call.result \in {0, 1}
            /\ correct_response(trial) = expected
            /\ call.result = 1 <=> trial.response = expected
            /\ trial.response = None => call.result = 0

\* the accuracy of a SQUARE shown LEFT and answered "j" is 1.0
C16_Witness ==
    /\ call.fn = "accuracy"
    /\ call.args.stimulus.shape = "SQUARE"
    /\ call.args.stimulus.location = "LEFT"
    /\ call.args.response = "j"
    /\ call.result = 1

(***************************************************************************)
(* Properties of run_stats.                                                *)
(***************************************************************************)
\* the conjunction of predicates a condition key names
KeyHolds(cond, stim) ==
    CASE cond = "CONGRUENT-VALID" -> congruent(stim) /\ valid(stim)
      [] cond = "CONGRUENT-INVALID" -> congruent(stim) /\ invalid(stim)
      [] cond = "INCONGRUENT-VALID" -> incongruent(stim) /\ valid(stim)
      [] cond = "INCONGRUENT-INVALID" -> incongruent(stim) /\ invalid(stim)

\* the places of a log whose stimulus is of a condition
Matching(l, cond) == {k \in 1..Len(l) : KeyHolds(cond, l[k].stimulus)}

RECURSIVE AccuracyOver(_, _)
AccuracyOver(l, places) ==
    IF places = {} THEN 0
    ELSE LET k == CHOOSE k \in places : TRUE
         IN  accuracy(l[k]) + AccuracyOver(l, places \ {k})

RECURSIVE TimeOver(_, _)
TimeOver(l, places) ==
    IF places = {} THEN 0
    ELSE LET k == CHOOSE k \in places : TRUE
         IN  (l[k].offset - l[k].onset) + TimeOver(l, places \ {k})

CueConditionKeys ==
    {"CONGRUENT-VALID", "CONGRUENT-INVALID",
     "INCONGRUENT-VALID", "INCONGRUENT-INVALID"}

Empty == <<0, NaN, NaN>>

C18_NeverFails ==
    call.fn = "run_stats" =>
        /\ call.raised = None
        /\ \A cond \in CueConditionKeys :
              Matching(call.args, cond) = {} => call.result[cond] = Empty
        /\ call.args = <<>> =>
              \A cond \in CueConditionKeys : call.result[cond] = Empty

\* abandoned while the cue of the second trial is shown: one trial logged
C18_Witness ==
    /\ call.fn = "run_stats"
    /\ pc = "abandoned"
    /\ phase = "cue"
    /\ index = 1
    /\ Len(call.args) = 1
    /\ \E cond \in CueConditionKeys : call.result[cond][1] = 1
    /\ \E cond \in CueConditionKeys : call.result[cond] = Empty

(***************************************************************************)
(* Properties of stats_qc.                                                 *)
(***************************************************************************)
Checked == call.fn = "stats_qc"

\* stats_qc returned this value, without raising
Returned(value) == call.raised = None /\ call.result = value

\* C19: stats_qc returns True if and only if every condition of the stats
\* mapping has exactly 20 trials and no NaN is among its accuracy and
\* response-time values; so it does for the run_stats output of a
\* completed run with 20 trials in every condition and real means.
C19_TrueIffComplete ==
    (Checked /\ DOMAIN call.args # {}) =>
        (Returned(TRUE) <=>
            \A cond \in DOMAIN call.args :
                /\ call.args[cond][1] = ExpectedTrials
                /\ call.args[cond][2] # NaN
                /\ call.args[cond][3] # NaN)

\* C20: stats_qc returns False, without raising, for every stats mapping
\* in which some condition has a trial count other than 20, or whose set
\* of condition keys is not of the expected size.
C20_FalseWithoutRaising ==
    (/\ Checked
     /\ \/ \E cond \in DOMAIN call.args : call.args[cond][1] # ExpectedTrials
        \/ Cardinality(DOMAIN call.args) # Len(CUE_CONDITIONS))
        => Returned(FALSE)

(***************************************************************************)
(* Properties of set_parameters.                                           *)
(***************************************************************************)
\* the options the task and its engine know
Recognized == get_parameters_name \cup {"motivation", "at"}

\* C21: a configuration key that is not a recognized option is ignored by
\* set_parameters: no error is raised and nothing is sent to the engine
\* for it; only recognized options have an effect.
C21_UnrecognizedIgnored ==
    call.fn = "set_parameters" =>
        /\ call.raised = None
        /\ \A i \in 1..Len(call.result.sent) :
              \E key \in Recognized : call.result.sent[i].name = Colon(key)

(***************************************************************************)
(* Properties of the derived properties of SimonStimulus.                  *)
(***************************************************************************)
\* C22: for every stimulus, exactly one of congruent, incongruent is true
\* and congruent holds iff SIMON_MAPPINGS[shape] == location; exactly one
\* of valid, invalid is true and valid holds iff SIMON_MAPPINGS[shape] ==
\* cue; kind and cue_kind name the one that holds.
C22_Predicates ==
    call.fn = "properties" =>
        LET stim == call.args
            r == call.result
        IN  /\ r.congruent # r.incongruent
            /\ r.congruent <=> SIMON_MAPPINGS[stim.shape] = stim.location
            /\ r.valid # r.invalid
            /\ r.valid <=> SIMON_MAPPINGS[stim.shape] = stim.cue
            /\ r.kind = IF r.congruent THEN "congruent" ELSE "incongruent"
            /\ r.cue_kind = IF r.valid THEN "valid" ELSE "invalid"

\* a CIRCLE shown RIGHT after a LEFT cue is incongruent and valid
C22_Witness ==
    /\ call.fn = "properties"
    /\ call.args = SimonStimulus("CIRCLE", "RIGHT", "LEFT")
    /\ call.result.kind = "incongruent"
    /\ call.result.cue_kind = "valid"

(***************************************************************************)
(* Properties of the steps of update_window under any engine.              *)
(***************************************************************************)
\* C23: a step of update_window acts as the phase it starts in asks: the
\* fixation render is requested only when phase == "fixation", the cue
\* render only when phase == "cue", and the onset is recorded, the
\* stimulus render requested and the trial logged only when phase ==
\* "stimulus".
C23_ActionAgreesWithPhase ==
    [][/\ update_window_fixation => phase = "fixation"
       /\ update_window_cue => phase = "cue"
       /\ update_window_stimulus => phase = "stimulus"
       /\ after_stimulus => phase = "stimulus"]_vars

\* C24: whenever phase is not "done", current_trial is the trial on
\* stimuli[index]; when the stimulus step advances index to a position
\* that is not the end, it installs a new trial, with response None and
\* onset == offset == 0.0, that is none of the logged trials, and leaves
\* the trial it logs as it was.
C24_CurrentTrialOnIndex ==
    [][/\ (pc' # "constructed" /\ phase' # "done")
            => Cur'.stimulus = StimulusAt(index')
       /\ (after_stimulus /\ phase' # "done")
            => /\ Cur'.response = None
               /\ Cur'.onset = 0
               /\ Cur'.offset = 0
               /\ \A i \in 1..Len(log') : log'[i] # current_trial'
               /\ trials'[log'[Len(log')]] = Cur]_vars

\* the first trial was answered and logged, and the second is fresh
C24_Witness ==
    /\ index = 1
    /\ phase = "fixation"
    /\ Len(log) = 1
    /\ LogTrials[1].response = "f"
    /\ LogTrials[1].offset > 0
    /\ Cur.response = None
    /\ Cur.offset = 0
    /\ Cur.stimulus = stimuli[2]

\* C25: an accepted accept_response (phase == "stimulus") sets the offset
\* of current_trial to the engine time of the call; the stimulus step sets
\* its onset to the engine time at its start; nothing else writes either;
\* so the response_time of a trial logged with a response is the time of
\* the acceptance minus the onset recorded at the start of the stimulus
\* step.
C25_OffsetIsAcceptanceTime ==
    [][/\ ((\E response \in Keys : accept_response(response))
              /\ phase = "stimulus")
            => /\ Cur'.offset = now
               /\ Cur'.onset = Cur.onset
       /\ update_window_stimulus
            => /\ Cur'.onset = now
               /\ Cur'.offset = Cur.offset
               /\ Cur'.response = Cur.response
       /\ after_stimulus
            => response_time(trials'[log'[Len(log')]])
                  = Cur.offset - Cur.onset
       /\ ~((\E response \in Keys : accept_response(response))
              \/ update_window_stimulus)
            => \A i \in 1..Len(trials) :
                  /\ trials'[i].onset = trials[i].onset
                  /\ trials'[i].offset = trials[i].offset]_vars

\* a trial is logged that was answered two ticks after its onset
C25_Witness ==
    /\ Len(log) = 1
    /\ LogTrials[1].response = "j"
    /\ LogTrials[1].onset > 0
    /\ response_time(LogTrials[1]) = 2

(***************************************************************************)
(* Properties of set_motivation.                                           *)
(***************************************************************************)
\* C26: set_motivation writes the goal of the engine only while phase ==
\* "fixation" and the motivation parameter is not zero; the fixation step
\* schedules the motivation command before the fixation render, the render
\* runs after it, and both have run when the step leaves the phase;
\* set_motivation changes none of index, phase, log, current_trial.
C26_MotivationAtFixation ==
    [][/\ (set_motivation /\ goal' # goal)
            => (phase = "fixation" /\ motivation # 0)
       /\ (set_motivation /\ phase = "fixation" /\ motivation # 0)
            => goal' = "ATTEND-FIXATION"
       /\ set_motivation
            => UNCHANGED <<index, phase, log, current_trial, trials>>
       /\ update_window_fixation
            => \E m, f \in pending' :
                  /\ m.cmd = "stroop-set-motivation"
                  /\ f.cmd = "stroop-update-fixation"
                  /\ m.at < f.at
       /\ fixation
            => \A e \in pending : e.cmd # "stroop-set-motivation"
       /\ after_fixation
            => /\ pending = {}
               /\ screen = "fixation"]_vars

\* in a fixation step the motivation has been sent and the render is still
\* to come
C26_Witness ==
    /\ pc = "run-fixation"
    /\ phase = "fixation"
    /\ motivation = 1
    /\ goal = "ATTEND-FIXATION"
    /\ \E e \in pending : e.cmd = "stroop-update-fixation"

(***************************************************************************)
(* Properties of index, phase and the logged trials under any engine.      *)
(***************************************************************************)
\* C27: after setup, 0 <= index <= len(stimuli), and phase == "done" if
\* and only if index == len(stimuli); the stimulus step reads stimuli only
\* at a position inside the sequence.
C27_IndexInRange ==
    /\ [](AfterSetup => /\ 0 <= index
                        /\ index <= N
                        /\ phase = "done" <=> index = N)
    /\ [][(after_stimulus /\ phase' # "done")
             => (index' + 1) \in DOMAIN stimuli]_vars

\* both stimuli of a sequence of two are consumed
C27_Witness ==
    /\ N = 2
    /\ index = 2
    /\ phase = "done"
    /\ pc = "call"

\* C28: once a trial is in log, its response, onset and offset do not
\* change, whatever steps of update_window and calls of accept_response
\* follow, phase == "done" included, where current_trial is still the last
\* logged trial.
C28_LoggedTrialsFrozen ==
    [][\A i \in 1..Len(log) :
          /\ log'[i] = log[i]
          /\ trials'[log[i]] = trials[log[i]]]_vars

\* a key is pressed after the last trial was logged unanswered, and the
\* trial, still the current one, is unanswered
C28_Witness ==
    /\ phase = "done"
    /\ pc = "run-done"
    /\ presses > 0
    /\ current_trial = log[Len(log)]
    /\ Cur.response = None

C30_SuppliedStimuliUsed ==
    (call.fn = "SimonTask" /\ call.args.stimuli # <<>>) =>
        /\ call.raised = None
        /\ call.result.stimuli = Assigned(call.args.stimuli)
        /\ call.result.current_trial
              = Assigned(SimonTrial(call.args.stimuli[1]))

(***************************************************************************)
(* Properties of the call of update_window made by run_experiment.         *)
(***************************************************************************)
\* C31: whatever the engine does with its goal step, when the call of
\* update_window made by run_experiment has returned, phase == "done" and
\* len(log) == len(stimuli): run_stats is computed over a completed run.
C31_ReturnsCompleted ==
    pc = "returned" => (phase = "done" /\ Len(log) = N)

====
